---- MODULE Spec2Model ----
(***************************************************************************)
(* Model of src/main.py: the Runner that asks for a question, builds the   *)
(* Persona ("twin") and Editor ("writer") agents and their two tasks,      *)
(* hands them to a sequential Crew, runs it once inside one try/except,    *)
(* and reports on the reply file johnson_reply.md.                         *)
(*                                                                         *)
(* The language model and the two file tools are the environment: what a   *)
(* task returns, whether it raises, and whether the Editor's FileWriterTool *)
(* is used are nondeterministic.  What main.py fixes is modelled as it is  *)
(* written: the defaulting of the question, the task descriptions, the     *)
(* order of the task list given to the Crew with Process.sequential, the   *)
(* extent of the try block, the class caught by the except clause, and the *)
(* existence check and read-back of the reply file.                        *)
(***************************************************************************)
EXTENDS Integers, Sequences, FiniteSets, TLC

\* ------------------------------------------------------------- bounds
\* Longest question typed at the prompt.
MaxLen == 2
\* Longest reply file (in bytes) the Editor's tool writes.
MaxBytes == 2
\* Longest johnson_reply.md (in bytes) already present before the run.
MaxStale == 1

\* Characters of a typed question: two kinds of whitespace and a letter.
Chars == {" ", "\t", "a"}
\* Bytes of a reply file: 'a', LF, CR, and the two bytes of UTF-8 e-acute.
Bytes == {97, 10, 13, 195, 169}
\* Texts the language model may return for a task.
Texts == {"t1", "t2"}

RECURSIVE SeqsUpTo(_, _)
SeqsUpTo(S, n) ==
    IF n = 0 THEN {<<>>}
    ELSE LET shorter == SeqsUpTo(S, n - 1)
         IN  shorter \cup {Append(s, x) : s \in {t \in shorter : Len(t) = n - 1}, x \in S}

Inputs == SeqsUpTo(Chars, MaxLen)
Absent == <<"absent">>
Present(bs) == <<"file", bs>>
StaleFiles == {Absent} \cup {Present(bs) : bs \in SeqsUpTo(Bytes, MaxStale)}
Written == SeqsUpTo(Bytes, MaxBytes)

\* ------------------------------------------------------ pure functions
\* str.strip(): leading and trailing whitespace removed.
IsSpace(c) == c \in {" ", "\t"}

RECURSIVE lstrip(_)
lstrip(s) == IF s # <<>> /\ IsSpace(Head(s)) THEN lstrip(Tail(s)) ELSE s

RECURSIVE rstrip(_)
rstrip(s) ==
    IF s # <<>> /\ IsSpace(s[Len(s)]) THEN rstrip(SubSeq(s, 1, Len(s) - 1)) ELSE s

strip(s) == rstrip(lstrip(s))

\* main, lines 108-109: the question the run uses.
DefaultQuestion == <<"Explain my background in 3 sentences">>

BlankTestStripless(q) == q = <<>>

IsBlank(q) == strip(q) = <<>>

EffectiveQuestion(q) == IF IsBlank(q) THEN DefaultQuestion ELSE q

\* Agents.
PersonaRole == "The little me of myself"
EditorRole == "Formal Response Writer"
Roles == {PersonaRole, EditorRole}

create_twin_agent ==
    [role |-> PersonaRole, allow_delegation |-> FALSE, tools |-> {"FileReadTool"}]

create_writer_agent ==
    [role |-> EditorRole, allow_delegation |-> FALSE, tools |-> {"FileWriterTool"}]

\* The f-string of the research task, lines 63-72: the text before the
\* placeholder and the start of the text after it character by character,
\* the rest of the fixed text as one token.
DescriptionHead == <<"Q", "u", "e", "s", "t", "i", "o", "n", ":", " ">>
DescriptionTail == <<"\n", "\n", " ", "Your task (on behalf of Johnson Wang): ...">>

ResearchDescriptionNoQuestion(question) ==
    DescriptionHead \o <<"{", "question", "}">> \o DescriptionTail

ResearchDescription(question) == DescriptionHead \o question \o DescriptionTail

create_johnson_response_task(agent, question) ==
    [description |-> ResearchDescription(question),
     expected_output |-> "A short structured text containing the the answer to the question",
     agent |-> agent]

create_writing_task(agent) ==
    [description |-> <<"You are given a short draft response ... Save the final reply as 'johnson_reply.md'">>,
     expected_output |-> "A formal first-person reply saved to 'johnson_reply.md' and a short status message.",
     agent |-> agent]

\* Crew(...), lines 129-134: the order of the task list.
TasksReversed(research_task, writing_task) == <<writing_task, research_task>>

CrewTasks(research_task, writing_task) == <<research_task, writing_task>>

\* Text-mode read of the reply file (open(..., 'r').read()): the bytes are
\* decoded (UTF-8 taken as the default encoding, errors strict; Bytes gives
\* rise to one- and two-byte forms only) and the newlines translated
\* (universal newlines).  A byte sequence that does not decode makes read()
\* raise UnicodeDecodeError.
RECURSIVE utf8_decode(_)
utf8_decode(bs) ==
    IF bs = <<>> THEN [ok |-> TRUE, text |-> <<>>]
    ELSE LET b == Head(bs)
         IN  IF b < 128
             THEN LET r == utf8_decode(Tail(bs))
                  IN  [ok |-> r.ok, text |-> IF r.ok THEN <<b>> \o r.text ELSE <<>>]
             ELSE IF b \in 194..223 /\ Len(bs) >= 2 /\ bs[2] \in 128..191
             THEN LET r == utf8_decode(SubSeq(bs, 3, Len(bs)))
                  IN  [ok |-> r.ok,
                       text |-> IF r.ok THEN <<(b - 192) * 64 + (bs[2] - 128)>> \o r.text
                                ELSE <<>>]
             ELSE [ok |-> FALSE, text |-> <<>>]

RECURSIVE translate_newlines(_)
translate_newlines(cs) ==
    IF cs = <<>> THEN <<>>
    ELSE IF Head(cs) = 13
         THEN IF Len(cs) >= 2 /\ cs[2] = 10
              THEN <<10>> \o translate_newlines(SubSeq(cs, 3, Len(cs)))
              ELSE <<10>> \o translate_newlines(Tail(cs))
         ELSE <<Head(cs)>> \o translate_newlines(Tail(cs))

\* len(content), line 153.
ReportedLengthBytes(bs) == Len(bs)

ReportedLength(bs) == Len(translate_newlines(utf8_decode(bs).text))

\* os.path.exists('johnson_reply.md'), line 149.
ExistsAlways(file) == TRUE

exists(file) == file # Absent

\* except Exception, line 157: the classes the handler catches.
CatchesNothing(kind) == FALSE

Catches(kind) == kind = "Exception"

\* After the handler main ends, line 160: there is no loop around the try.
AfterHandledRetry == "assembled"

AfterHandled == "done"

\* The handler's three prints, lines 158-160.
HandlerPrints == <<"An error occurred", "Note: requires valid API keys", "Please set OPENAI_API_KEY">>

\* -------------------------------------------------------------- state
VARIABLES
    pc,            \* where main is: "start", "asked", "assembled", "running",
                   \* "returned", "done" (main returned), "escaped" (an exception left main)
    rawInput,      \* what input() returned
    question,      \* the variable question of main
    out,           \* the console: the messages printed, in order
    lengths,       \* the reply lengths printed (at most one)
    research_task, \* main's research_task  (<<>> before it is created)
    writing_task,  \* main's writing_task
    crew,          \* main's crew: its task list (<<>> before it is assembled)
    kickoffs,      \* how many times crew.kickoff() was called
    cur,           \* the orchestrator's position in the task list
    status,        \* per agent role, the state of its task
    started,       \* per agent role, how many times its task was begun
    output,        \* per agent role, the text its task returned ("none": not yet)
    context,       \* per agent role, the earlier outputs its task was begun with
    raised,        \* class of the exception raised inside the try block
    infoReadable,  \* whether ./information.txt can be read
    readFailed,    \* whether the FileReadTool was used on an unreadable file
    replyFile,     \* johnson_reply.md: Absent or Present(bytes)
    wroteNow       \* whether the FileWriterTool wrote the file in this run

vars == <<pc, rawInput, question, out, lengths, research_task, writing_task, crew,
          kickoffs, cur, status, started, output, context, raised, infoReadable,
          readFailed, replyFile, wroteNow>>

Init ==
    /\ pc = "start"
    /\ rawInput = <<>>
    /\ question = <<>>
    /\ out = <<>>
    /\ lengths = <<>>
    /\ research_task = <<>>
    /\ writing_task = <<>>
    /\ crew = <<>>
    /\ kickoffs = 0
    /\ cur = 0
    /\ status = [r \in Roles |-> "pending"]
    /\ started = [r \in Roles |-> 0]
    /\ output = [r \in Roles |-> "none"]
    /\ context = [r \in Roles |-> <<>>]
    /\ raised = "none"
    /\ infoReadable \in BOOLEAN
    /\ readFailed = FALSE
    /\ replyFile \in StaleFiles
    /\ wroteNow = FALSE

\* main, lines 103-113: banner, prompt, defaulting of a blank question.
ReadQuestion ==
    /\ pc = "start"
    /\ \E typed \in Inputs :
         /\ rawInput' = typed
         /\ question' = EffectiveQuestion(typed)
         /\ out' = out \o <<"Welcome">>
                       \o (IF IsBlank(typed) THEN <<"Using default question">> ELSE <<>>)
                       \o <<"Question">>
    /\ pc' = "asked"
    /\ UNCHANGED <<lengths, research_task, writing_task, crew, kickoffs, cur, status,
                   started, output, context, raised, infoReadable, readFailed,
                   replyFile, wroteNow>>

\* main, lines 115-134: the two agents, the two tasks, the crew.
Assemble ==
    /\ pc = "asked"
    /\ LET researcher == create_twin_agent
           writer == create_writer_agent
           rt == create_johnson_response_task(researcher, question)
           wt == create_writing_task(writer)
       IN  /\ research_task' = rt
           /\ writing_task' = wt
           /\ crew' = CrewTasks(rt, wt)
    /\ out' = out \o <<"Creating AI agents", "Setting up tasks", "Assembling the crew">>
    /\ pc' = "assembled"
    /\ UNCHANGED <<rawInput, question, lengths, kickoffs, cur, status, started, output,
                   context, raised, infoReadable, readFailed, replyFile, wroteNow>>

\* main, lines 137-141: the try block is entered and crew.kickoff() called.
Kickoff ==
    /\ pc = "assembled"
    /\ out' = out \o <<"Starting crew execution">>
    /\ kickoffs' = kickoffs + 1
    /\ cur' = 1
    /\ pc' = "running"
    /\ UNCHANGED <<rawInput, question, lengths, research_task, writing_task, crew,
                   status, started, output, context, raised, infoReadable, readFailed,
                   replyFile, wroteNow>>

\* The outputs of the tasks before position i, in order.
PriorOutputs(i) == [k \in 1..(i - 1) |-> output[crew[k].agent.role]]

\* Process.sequential: the task at the orchestrator's position begins, with
\* the outputs of the tasks before it as its context.
BeginTask ==
    /\ pc = "running"
    /\ cur \in 1..Len(crew)
    /\ LET role == crew[cur].agent.role
       IN  /\ status[role] = "pending"
           /\ status' = [status EXCEPT ![role] = "running"]
           /\ started' = [started EXCEPT ![role] = @ + 1]
           /\ context' = [context EXCEPT ![role] = PriorOutputs(cur)]
    /\ UNCHANGED <<pc, rawInput, question, out, lengths, research_task, writing_task,
                   crew, kickoffs, cur, output, raised, infoReadable, readFailed,
                   replyFile, wroteNow>>

\* The except clause of main, lines 157-160, entered with an exception of
\* class kind raised inside the try block after `printed` was printed.
Handle(kind, printed) ==
    /\ raised' = kind
    /\ IF Catches(kind)
       THEN /\ out' = printed \o HandlerPrints
            /\ pc' = AfterHandled
       ELSE /\ out' = printed
            /\ pc' = "escaped"

\* The running task returns a text.  An agent holding the FileReadTool may
\* have used it; an agent holding the FileWriterTool may have written
\* johnson_reply.md.  After the last task kickoff() returns that text.
TaskReturns ==
    /\ pc = "running"
    /\ cur \in 1..Len(crew)
    /\ LET agent == crew[cur].agent
           role == agent.role
       IN  /\ status[role] = "running"
           /\ status' = [status EXCEPT ![role] = "completed"]
           /\ \E text \in Texts : output' = [output EXCEPT ![role] = text]
           /\ \E used \in BOOLEAN :
                readFailed' = (readFailed \/
                               (used /\ "FileReadTool" \in agent.tools /\ ~infoReadable))
           /\ \/ UNCHANGED <<replyFile, wroteNow>>
              \/ /\ "FileWriterTool" \in agent.tools
                 /\ \E bs \in Written : replyFile' = Present(bs)
                 /\ wroteNow' = TRUE
    /\ cur' = cur + 1
    /\ pc' = IF cur = Len(crew) THEN "returned" ELSE "running"
    /\ UNCHANGED <<rawInput, question, out, lengths, research_task, writing_task, crew,
                   kickoffs, started, context, raised, infoReadable>>

\* The running task fails: the exception leaves kickoff() and reaches the
\* except clause of main.  No later task begins.
TaskRaises ==
    /\ pc = "running"
    /\ cur \in 1..Len(crew)
    /\ LET agent == crew[cur].agent
           role == agent.role
       IN  /\ status[role] = "running"
           /\ status' = [status EXCEPT ![role] = "failed"]
           /\ \E used \in BOOLEAN :
                readFailed' = (readFailed \/
                               (used /\ "FileReadTool" \in agent.tools /\ ~infoReadable))
    /\ \E kind \in {"Exception", "BaseException"} : Handle(kind, out)
    /\ UNCHANGED <<rawInput, question, lengths, research_task, writing_task, crew,
                   kickoffs, cur, started, output, context, infoReadable, replyFile,
                   wroteNow>>

\* main, lines 143-155 (and 157-160 when the read-back raises): the report.
\* open() raises when the file is missing, read() when its bytes do not decode.
Report ==
    /\ pc = "returned"
    /\ LET printed == out \o <<"Crew execution completed", "Final Result", "result">>
       IN  IF exists(replyFile)
           THEN LET bs == replyFile[2]
                    saved == printed \o <<"Reply successfully saved">>
                IN  IF replyFile # Absent /\ utf8_decode(bs).ok
                    THEN /\ out' = saved \o <<"Reply length">>
                         /\ lengths' = Append(lengths, ReportedLength(bs))
                         /\ pc' = "done"
                         /\ UNCHANGED raised
                    ELSE /\ Handle("Exception", saved)
                         /\ UNCHANGED lengths
           ELSE /\ out' = printed \o <<"No output file found">>
                /\ pc' = "done"
                /\ UNCHANGED <<lengths, raised>>
    /\ UNCHANGED <<rawInput, question, research_task, writing_task, crew, kickoffs, cur,
                   status, started, output, context, infoReadable, readFailed,
                   replyFile, wroteNow>>

Next ==
    \/ ReadQuestion
    \/ Assemble
    \/ Kickoff
    \/ BeginTask
    \/ TaskReturns
    \/ TaskRaises
    \/ Report

Spec == Init /\ [][Next]_vars

\* ------------------------------------------------------------- claims
Range(s) == {s[i] : i \in 1..Len(s)}
Printed(m) == m \in Range(out)
Ended == pc \in {"done", "escaped"}
TasksCreated == pc \notin {"start", "asked"}
\* kickoff() returned without raising: line 143 was reached.
KickoffReturned == Printed("Crew execution completed")
\* s ends with the sequence t.
EndsWith(s, t) == Len(s) >= Len(t) /\ SubSeq(s, Len(s) - Len(t) + 1, Len(s)) = t
\* q occurs in s as a contiguous run.
Contains(s, q) == \E i \in 1..(Len(s) - Len(q) + 1) : SubSeq(s, i, i + Len(q) - 1) = q
Count(s, m) == Cardinality({i \in 1..Len(s) : s[i] = m})
AllWhitespace(q) == \A i \in 1..Len(q) : q[i] \in {" ", "\t"}
\* The failure path's report: the diagnostic, then the credential hint.
FailureReport == <<"An error occurred", "Note: requires valid API keys", "Please set OPENAI_API_KEY">>

\* C1: the Editor's task never begins before the Persona's task has
\* completed; when it begins, its context is the Persona's output; the two
\* tasks are never running together, and the Persona's task never begins
\* once the Editor's has.
C1_SequentialHandOff ==
    /\ status[EditorRole] # "pending" =>
         /\ status[PersonaRole] = "completed"
         /\ context[EditorRole] = <<output[PersonaRole]>>
         /\ output[PersonaRole] \in Texts
    /\ ~(status[PersonaRole] = "running" /\ status[EditorRole] = "running")
    /\ status[PersonaRole] # "pending" => context[PersonaRole] = <<>>

C1_Witness ==
    /\ status[EditorRole] = "running"
    /\ status[PersonaRole] = "completed"
    /\ context[EditorRole] = <<"t2">>

\* C2: a failure (an Exception) raised inside the try block is caught once:
\* the diagnostic and the credential hint are the last things printed, the
\* diagnostic is printed once, and main returns instead of letting the
\* exception out.
C2_FailureCaughtOnce ==
    raised = "Exception" =>
        /\ pc = "done"
        /\ EndsWith(out, FailureReport)
        /\ Count(out, "An error occurred") = 1

C2_Witness ==
    /\ raised = "Exception"
    /\ status[EditorRole] = "failed"
    /\ pc = "done"

\* C3 as stated: with information.txt unreadable (and the read tool used on
\* it), a run that is not interrupted ends in the failure path and without
\* the success report.
C3_Original ==
    (~infoReadable /\ readFailed /\ Ended /\ raised # "BaseException") =>
        /\ pc = "done"
        /\ EndsWith(out, FailureReport)
        /\ ~Printed("Reply successfully saved")

\* C3 as amended: with information.txt unreadable and the read tool used on
\* it, no Exception leaves main.  The run ends in the failure path exactly
\* when an Exception was raised inside the try block; when kickoff returns
\* (the tool's error having been handed back to the agent), the run ends
\* with the report of a returned run, which may be the success report.
C3_UnreadableFactFile ==
    (~infoReadable /\ readFailed /\ Ended /\ raised # "BaseException") =>
        /\ pc = "done"
        /\ Printed("An error occurred") <=> raised = "Exception"
        /\ raised = "Exception" => EndsWith(out, FailureReport)
        /\ raised = "none" =>
             /\ KickoffReturned
             /\ \/ EndsWith(out, <<"Reply successfully saved", "Reply length">>)
                \/ EndsWith(out, <<"No output file found">>)

C3_Witness ==
    /\ ~infoReadable
    /\ readFailed
    /\ pc = "done"
    /\ raised = "none"
    /\ Printed("Reply length")

\* C4 as stated: after kickoff returned without error, the reply file
\* exists and the reported length is positive and equals its byte count.
C4_Original ==
    (pc = "done" /\ KickoffReturned) =>
        /\ replyFile # Absent
        /\ Len(lengths) = 1
        /\ lengths[1] > 0
        /\ lengths[1] = Len(replyFile[2])

\* Bytes 128..191 continue a multi-byte character; a CR LF pair reads as one
\* newline.
ContinuationBytes(bs) == Cardinality({i \in 1..Len(bs) : bs[i] \in 128..191})
CRLFPairs(bs) == Cardinality({i \in 1..(Len(bs) - 1) : bs[i] = 13 /\ bs[i + 1] = 10})

\* C4 as amended: whenever a length is reported, kickoff returned, the reply
\* file exists, and the one number reported is the count of characters of
\* the file as read in text mode: its byte count less the continuation
\* bytes and less one per CR LF pair; it is never negative and never more
\* than the byte count, and it is zero for an empty file.
C4_ReportedLength ==
    lengths # <<>> =>
        /\ KickoffReturned
        /\ replyFile # Absent
        /\ Len(lengths) = 1
        /\ LET bs == replyFile[2]
           IN  /\ lengths[1] = Len(bs) - ContinuationBytes(bs) - CRLFPairs(bs)
               /\ lengths[1] >= 0
               /\ lengths[1] <= Len(bs)
               /\ bs = <<>> => lengths[1] = 0

C4_Witness ==
    /\ pc = "done"
    /\ lengths # <<>>
    /\ replyFile # Absent
    /\ lengths[1] < Len(replyFile[2])

\* C5: when kickoff returned without error and johnson_reply.md is absent,
\* the warning is printed and neither the success message nor a length is.
C5_AbsentFileWarning ==
    (pc = "done" /\ KickoffReturned /\ replyFile = Absent) =>
        /\ Printed("No output file found")
        /\ ~Printed("Reply successfully saved")
        /\ ~Printed("Reply length")
        /\ lengths = <<>>

C5_Witness ==
    /\ pc = "done"
    /\ KickoffReturned
    /\ replyFile = Absent
    /\ status[EditorRole] = "completed"

\* C6: kickoff is called at most once and exactly once in a run that reached
\* it; no task is begun twice; a failed task ends the run; and when the
\* Persona's task fails the Editor's task never begins and the reply file is
\* not written.
C6_NoRetry ==
    /\ kickoffs <= 1
    /\ pc \in {"running", "returned", "done", "escaped"} => kickoffs = 1
    /\ \A r \in Roles : started[r] <= 1
    /\ (\E r \in Roles : status[r] = "failed") => Ended
    /\ status[PersonaRole] = "failed" =>
         /\ status[EditorRole] = "pending"
         /\ started[EditorRole] = 0
         /\ ~wroteNow

C6_Witness ==
    /\ status[PersonaRole] = "failed"
    /\ pc = "done"
    /\ kickoffs = 1

\* C7: for a question that is empty or all whitespace the question used is
\* the default and the substitution is printed, before the tasks are set
\* up; any other question is used unchanged; the research task is built
\* from the question used.
C7_DefaultQuestion ==
    pc # "start" =>
        /\ IF AllWhitespace(rawInput)
           THEN /\ question = <<"Explain my background in 3 sentences">>
                /\ Len(out) >= 2 /\ out[2] = "Using default question"
                /\ \A j \in 1..Len(out) : out[j] = "Setting up tasks" => j > 2
           ELSE /\ question = rawInput
                /\ ~Printed("Using default question")
        /\ TasksCreated =>
             research_task.description = DescriptionHead \o question \o DescriptionTail

C7_Witness ==
    /\ TasksCreated
    /\ rawInput = <<" ", "\t">>
    /\ question = DefaultQuestion
    /\ Printed("Using default question")

\* C8: for a question that is not blank, the description of the research
\* task contains the question as typed, the task is the Persona's, and it
\* is the task at the head of the list passed to the Crew.
C8_QuestionVerbatim ==
    (TasksCreated /\ ~AllWhitespace(rawInput)) =>
        /\ Contains(research_task.description, rawInput)
        /\ research_task.agent = create_twin_agent
        /\ research_task \in Range(crew)
        /\ writing_task.agent = create_writer_agent

C8_Witness ==
    /\ TasksCreated
    /\ rawInput = <<" ", "a">>
    /\ Contains(research_task.description, <<" ", "a">>)

\* The three final reports.
SuccessReport == Printed("Reply successfully saved") /\ Printed("Reply length")
WarningReport == Printed("No output file found")
ErrorReport == Printed("An error occurred")

\* C9 as stated: a run that reached kickoff and in which main returned ends
\* with exactly one of the three final reports, and the completion or
\* success messages are never printed together with the error diagnostic.
C9_Original ==
    (pc = "done" /\ kickoffs >= 1) =>
        /\ \/ (SuccessReport /\ ~WarningReport /\ ~ErrorReport)
           \/ (~SuccessReport /\ WarningReport /\ ~ErrorReport)
           \/ (~SuccessReport /\ ~WarningReport /\ ErrorReport)
        /\ ~(ErrorReport /\ (Printed("Crew execution completed")
                             \/ Printed("Reply successfully saved")))

\* C10 as stated: the success message is printed only if the Editor's tool
\* wrote johnson_reply.md in this run.
C10_Original == Printed("Reply successfully saved") => wroteNow

====
